---- MODULE Spec2Model ----
(***************************************************************************)
(* Model of github-notify-to-tg: the poll / dedupe / forward pipeline of   *)
(* src/main.rs and the dedup store of src/db.rs.                           *)
(*                                                                         *)
(* One step of the model is one resumption of the single async task: the   *)
(* code that runs from one .await to the next.  The await points of        *)
(* poll_once are the page request (main.rs:186), is_sent (:144),           *)
(* send_telegram (:149) and mark_sent (:154); main awaits poll_once or     *)
(* ctrl_c (:54) and then sleep or ctrl_c (:73).                            *)
(*                                                                         *)
(* Option<T> is modelled as a set with at most one element: None is {}     *)
(* and Some(x) is {x}.  Instants are whole seconds, as naturals.           *)
(***************************************************************************)
EXTENDS Integers, Sequences, FiniteSets, TLC

VARIABLES
  feed,          \* remote: the notifications the GitHub API currently lists
  backlog,       \* remote: whether it also lists a page of old read items
  now,           \* remote: the clock that stamps updated_at
  faults,        \* outside: whether calls to GitHub, Telegram, the DB can fail
  table,         \* sent_notifications: the ids stored in the dedup table
  backend,       \* which NotificationStore implementation connect_store chose
  since_cursor,  \* main: Option<DateTime<Utc>>
  sched,         \* main: where the loop stands (Polling, Sleeping, Stopped)
  pc,            \* poll_once: the await the cycle is parked on
  page,          \* fetch_notifications: page
  all,           \* fetch_notifications: all
  notifications, \* poll_once: the sorted items the for loop has not reached
  cur,           \* poll_once: Option<notification> of the current iteration
  latest_seen,   \* poll_once: latest_seen
  sent_count,    \* poll_once: sent_count, of the latest cycle
  send_failed,   \* stderr of the latest cycle: ids of "telegram send failed"
  result,        \* main: how the poll_once of this iteration ended
  calls,         \* store interface: ids of the mark_sent calls that returned Ok
  answer,        \* store interface: the last call and what it returned
  answered,      \* history: the items the fetch of this cycle returned, in order
  watched,       \* history: the id whose deliveries are counted, 0 for none
  delivered,     \* history: successful send_telegram calls for watched
  write_failed,  \* history: failed mark_sent calls for watched
  dropped,       \* history: cycles dropped between send and mark_sent of watched
  database_url,  \* startup: cfg.database_url, a sequence of characters
  io,            \* startup: the I/O connect_store has attempted, in order
  started        \* startup: what connect_store returned

remote == <<feed, backlog, now, faults>>
store == <<table, backend>>
cycle == <<pc, page, all, notifications, cur, latest_seen, sent_count,
           send_failed, answered>>
driver == <<calls, answer>>
audit == <<watched, delivered, write_failed, dropped>>
startup == <<database_url, io, started>>

vars == <<feed, backlog, now, faults, table, backend, since_cursor, sched, pc, page,
          all, notifications, cur, latest_seen, sent_count, send_failed,
          result, calls, answer, answered, watched, delivered, write_failed,
          dropped, database_url, io, started>>

---------------------------------------------------------------------------
(* Bounds of the model *)

NumIds == 2          \* distinct notification ids
MaxFeed == 2         \* notifications the feed lists at a time, backlog aside
MaxTime == 3         \* the remote clock runs from 1 to MaxTime
MaxCalls == 3        \* successful mark_sent calls through the store interface
MaxDeliveries == 3   \* counted deliveries of the watched id
MaxBatch == 2        \* items of a page the remote side makes up

(* Program constants *)

PageSize == 50       \* per_page(50u8) and item_count < 50
MaxPage == 255       \* u8::MAX

Ids == 1..NumIds
Times == 1..MaxTime

Notification == [id : Ids, unread : BOOLEAN, updated_at : Times]

(* An old backlog of read notifications, exactly one page long, used to    *)
(* make a listing span more than one page.                                 *)
Backlog ==
  [k \in 1..PageSize |-> [id |-> NumIds + k, unread |-> FALSE, updated_at |-> 1]]

None == {}
Some(x) == {x}
Unwrap(o) == CHOOSE x \in o : TRUE

Backends == {"sqlite", "postgres"}

(* Strings are sequences of characters *)
Chars(str) ==
  CASE str = "sqlite://" ->
         <<"s", "q", "l", "i", "t", "e", ":", "/", "/">>
    [] str = "sqlite::memory:" ->
         <<"s", "q", "l", "i", "t", "e", ":", ":", "m", "e", "m", "o",
           "r", "y", ":">>
    [] str = "postgres://" ->
         <<"p", "o", "s", "t", "g", "r", "e", "s", ":", "/", "/">>
    [] str = "postgresql://" ->
         <<"p", "o", "s", "t", "g", "r", "e", "s", "q", "l", ":", "/", "/">>
    [] str = "./data/notify.db" ->
         <<".", "/", "d", "a", "t", "a", "/", "n", "o", "t", "i", "f",
           "y", ".", "d", "b">>
    [] str = "sqlite:" ->
         <<"s", "q", "l", "i", "t", "e", ":">>
    [] str = "postgres:" ->
         <<"p", "o", "s", "t", "g", "r", "e", "s", ":">>
    [] str = "ftp://" ->
         <<"f", "t", "p", ":", "/", "/">>
    [] str = "file://" ->
         <<"f", "i", "l", "e", ":", "/", "/">>
    [] str = "mysql://" ->
         <<"m", "y", "s", "q", "l", ":", "/", "/">>
    [] str = "Sqlite://" ->
         <<"S", "q", "l", "i", "t", "e", ":", "/", "/">>
    [] str = "host" ->
         <<"h", "o", "s", "t">>
    [] str = "h/db" ->
         <<"h", "/", "d", "b">>
    [] str = "/n.db" ->
         <<"/", "n", ".", "d", "b">>
    [] str = "n.db" ->
         <<"n", ".", "d", "b">>
    [] str = ":memory:" ->
         <<":", "m", "e", "m", "o", "r", "y", ":">>
    [] str = "sqlite://x" ->
         <<"s", "q", "l", "i", "t", "e", ":", "/", "/", "x">>
    [] str = "/" ->
         <<"/">>
    [] str = "" -> <<>>

(* env_or_default("DATABASE_URL", "sqlite://./data/notify.db") *)
DefaultUrl == Chars("sqlite://") \o Chars("./data/notify.db")

(* the URL the daemon of a backend was started with *)
UrlOf(b) ==
  IF b = "sqlite" THEN DefaultUrl ELSE Chars("postgres://") \o Chars("h/db")

---------------------------------------------------------------------------
(* connect_store (db.rs:23-46, 130-149) *)

(* str::starts_with *)
starts_with(str, prefix) ==
  /\ Len(str) >= Len(prefix)
  /\ SubSeq(str, 1, Len(prefix)) = prefix

(* str::trim_start_matches: the prefix is removed as often as it matches *)
RECURSIVE trim_start_matches(_, _)
trim_start_matches(str, prefix) ==
  IF prefix # <<>> /\ starts_with(str, prefix)
  THEN trim_start_matches(SubSeq(str, Len(prefix) + 1, Len(str)), prefix)
  ELSE str

RECURSIVE TrimSeparators(_)
TrimSeparators(path) ==
  IF path # <<>> /\ path[Len(path)] = "/"
  THEN TrimSeparators(SubSeq(path, 1, Len(path) - 1))
  ELSE path

(* Path::parent for paths of plain names: None for the empty path and for *)
(* the root, otherwise the path without its last component.               *)
parent(path) ==
  LET trimmed == TrimSeparators(path)
      cuts == {i \in DOMAIN trimmed : trimmed[i] = "/"}
  IN IF trimmed = <<>> THEN None
     ELSE IF cuts = {} THEN Some(<<>>)
     ELSE LET last == CHOOSE i \in cuts : \A j \in cuts : i >= j
              dir == TrimSeparators(SubSeq(trimmed, 1, last - 1))
          IN Some(IF dir = <<>> THEN Chars("/") ELSE dir)

(* ensure_sqlite_parent_dir (db.rs:130-149): the directory it asks         *)
(* create_dir_all for, if any; dir_ok says whether that call succeeds.     *)
ensure_sqlite_parent_dir(url, dir_ok) ==
  IF url = Chars("sqlite::memory:") THEN [ok |-> TRUE, io |-> <<>>]
  ELSE LET raw_path == trim_start_matches(url, Chars("sqlite://"))
       IN IF raw_path = <<>> THEN [ok |-> TRUE, io |-> <<>>]
          ELSE LET dir == parent(raw_path)
               IN IF dir # None /\ Unwrap(dir) # <<>>
                  THEN [ok |-> dir_ok,
                        io |-> <<[op |-> "create_dir_all",
                                  arg |-> Unwrap(dir)]>>]
                  ELSE [ok |-> TRUE, io |-> <<>>]

(* a variant that opens SQLite for everything that is not Postgres *)
connect_store_SqliteByDefault(url, dir_ok, conn_ok) ==
  IF starts_with(url, Chars("postgres://"))
     \/ starts_with(url, Chars("postgresql://"))
  THEN [result |-> IF conn_ok THEN "Ok" ELSE "ConnectError",
        backend |-> IF conn_ok THEN "postgres" ELSE "none",
        io |-> <<[op |-> "connect postgres", arg |-> url]>>]
  ELSE LET dir == ensure_sqlite_parent_dir(url, dir_ok)
       IN IF ~dir.ok
          THEN [result |-> "CreateDirError", backend |-> "none",
                io |-> dir.io]
          ELSE [result |-> IF conn_ok THEN "Ok" ELSE "ConnectError",
                backend |-> IF conn_ok THEN "sqlite" ELSE "none",
                io |-> dir.io \o <<[op |-> "connect sqlite", arg |-> url]>>]

(* connect_store (db.rs:23-46): what it returns, the backend of the store  *)
(* it built and the I/O it attempted; conn_ok says whether the pool's      *)
(* connect succeeds.                                                       *)
connect_store(url, dir_ok, conn_ok) ==
  IF starts_with(url, Chars("postgres://"))
     \/ starts_with(url, Chars("postgresql://"))
  THEN [result |-> IF conn_ok THEN "Ok" ELSE "ConnectError",
        backend |-> IF conn_ok THEN "postgres" ELSE "none",
        io |-> <<[op |-> "connect postgres", arg |-> url]>>]
  ELSE IF starts_with(url, Chars("sqlite://"))
  THEN LET dir == ensure_sqlite_parent_dir(url, dir_ok)
       IN IF ~dir.ok
          THEN [result |-> "CreateDirError", backend |-> "none",
                io |-> dir.io]
          ELSE [result |-> IF conn_ok THEN "Ok" ELSE "ConnectError",
                backend |-> IF conn_ok THEN "sqlite" ELSE "none",
                io |-> dir.io \o <<[op |-> "connect sqlite", arg |-> url]>>]
  ELSE [result |-> "UnsupportedScheme", backend |-> "none", io |-> <<>>]

---------------------------------------------------------------------------
(* The remote feed *)

(* A feed lists an id at most once and at most MaxFeed notifications. *)
IsFeed(f) ==
  /\ Cardinality(f) <= MaxFeed
  /\ \A a, b \in f : a.id = b.id => a = b

Feeds == {f \in SUBSET Notification : IsFeed(f)}

(* The API lists newest first; equal instants are listed by id. *)
Newest(S) ==
  CHOOSE n \in S : \A m \in S :
    \/ n.updated_at > m.updated_at
    \/ n.updated_at = m.updated_at /\ n.id <= m.id

RECURSIVE ListNewestFirst(_)
ListNewestFirst(S) ==
  IF S = {} THEN <<>>
  ELSE LET n == Newest(S) IN <<n>> \o ListNewestFirst(S \ {n})

(* req.since(since): only notifications updated at or after the instant. *)
(* The backlog is the oldest part of the listing and has the largest ids,  *)
(* so it is listed last.                                                   *)
Since(since, n) == since = None \/ n.updated_at >= Unwrap(since)

Listing(f, b, since) ==
  ListNewestFirst({n \in f : Since(since, n)})
    \o (IF b THEN SelectSeq(Backlog, LAMBDA n : Since(since, n)) ELSE <<>>)

Min(a, b) == IF a < b THEN a ELSE b

PageOf(list, p) ==
  SubSeq(list, (p - 1) * PageSize + 1, Min(p * PageSize, Len(list)))

---------------------------------------------------------------------------
(* The dedup store (db.rs).  up says whether the database answers: the     *)
(* query of a call fails exactly when it does not.                         *)

(* mutant: the query finds no row *)
SqliteIsSent_NoRow(t, id, up) ==
  IF up THEN [ok |-> TRUE, value |-> FALSE]
  ELSE [ok |-> FALSE, value |-> FALSE]

(* SELECT 1 FROM sent_notifications WHERE id = ? LIMIT 1, then is_some() *)
SqliteIsSent(t, id, up) ==
  IF up THEN [ok |-> TRUE, value |-> id \in t]
  ELSE [ok |-> FALSE, value |-> FALSE]

PostgresIsSent(t, id, up) ==
  IF up THEN [ok |-> TRUE, value |-> id \in t]
  ELSE [ok |-> FALSE, value |-> FALSE]

(* mutant: a plain INSERT, which the primary key rejects for a present id *)
SqliteMarkSent_PlainInsert(t, id, up) ==
  IF ~up THEN [ok |-> FALSE, table |-> t]
  ELSE IF id \in t THEN [ok |-> FALSE, table |-> t]
  ELSE [ok |-> TRUE, table |-> t \cup {id}]

(* INSERT OR IGNORE INTO sent_notifications (id) VALUES (?): id is the     *)
(* primary key; a row that is already there is kept and no error raised.   *)
SqliteMarkSent(t, id, up) ==
  IF ~up THEN [ok |-> FALSE, table |-> t]
  ELSE IF id \in t THEN [ok |-> TRUE, table |-> t]
  ELSE [ok |-> TRUE, table |-> t \cup {id}]

(* INSERT INTO sent_notifications (id) VALUES ($1) ON CONFLICT (id) DO     *)
(* NOTHING                                                                 *)
PostgresMarkSent(t, id, up) ==
  IF ~up THEN [ok |-> FALSE, table |-> t]
  ELSE IF id \in t THEN [ok |-> TRUE, table |-> t]
  ELSE [ok |-> TRUE, table |-> t \cup {id}]

(* dyn NotificationStore: the call goes to the backend connect_store chose *)
is_sent(b, t, id, up) ==
  IF b = "sqlite" THEN SqliteIsSent(t, id, up) ELSE PostgresIsSent(t, id, up)

(* a variant whose write reports success and stores nothing *)
mark_sent_StoresNothing(b, t, id, up) == [ok |-> up, table |-> t]

mark_sent(b, t, id, up) ==
  IF b = "sqlite" THEN SqliteMarkSent(t, id, up)
  ELSE PostgresMarkSent(t, id, up)

---------------------------------------------------------------------------
(* poll_once (main.rs:112-163) *)

(* a variant that takes the maximum over the unread items only *)
MaxUpdatedAt_UnreadOnly(s) ==
  LET seen == {s[i].updated_at : i \in {j \in DOMAIN s : s[j].unread}}
  IN IF seen = {} THEN None
     ELSE Some(CHOOSE t \in seen : \A u \in seen : t >= u)

(* notifications.iter().map(|n| n.updated_at).max() *)
MaxUpdatedAt(s) ==
  LET seen == {s[i].updated_at : i \in DOMAIN s}
  IN IF s = <<>> THEN None
     ELSE Some(CHOOSE t \in seen : \A u \in seen : t >= u)

(* notifications.sort_by(..) compares updated_at only and is a stable      *)
(* sort: the items come out by ascending updated_at, and the items of one  *)
(* instant keep the order they were fetched in.                            *)
RECURSIVE SortedFrom(_, _)
SortedFrom(s, keys) ==
  IF keys = {} THEN <<>>
  ELSE LET k == CHOOSE x \in keys : \A y \in keys : x <= y
       IN SelectSeq(s, LAMBDA n : n.updated_at = k)
            \o SortedFrom(s, keys \ {k})

(* a variant whose sort is not stable: the items of one instant come out  *)
(* in the reverse of the order they were fetched in                        *)
SortByUpdatedAt_TiesReversed(s) ==
  SortedFrom([i \in DOMAIN s |-> s[Len(s) + 1 - i]],
             {s[i].updated_at : i \in DOMAIN s})

SortByUpdatedAt(s) == SortedFrom(s, {s[i].updated_at : i \in DOMAIN s})

(* mutant: the unread test is missing *)
SkipRead_NoTest(s) == s

(* if !notification.unread { continue; }: the loop passes read items       *)
(* without awaiting anything, up to the first unread one.                  *)
SkipRead(s) ==
  LET unread == {i \in DOMAIN s : s[i].unread}
  IN IF unread = {} THEN <<>>
     ELSE SubSeq(s, CHOOSE i \in unread : \A j \in unread : i <= j, Len(s))

(* The value of poll_once as main sees it; an error carries its context:   *)
(* the page of the failed request, the id of the failed mark_sent.         *)
Result(kind, context) == [kind |-> kind, context |-> context]
NoResult == Result("None", 0)

(* mutant: the cursor is set to latest_seen itself *)
NextCursor_NoOverlap(cursor, latest) ==
  IF latest # None THEN latest ELSE cursor

(* main.rs:61-65: Ok(latest_seen) moves the cursor if it is Some *)
NextCursor(cursor, latest) ==
  IF latest # None THEN Some(Unwrap(latest) - 1) ELSE cursor

(* the poll_once future is gone: its locals are dropped *)
NoCycle ==
  /\ pc' = "idle"
  /\ page' = 0
  /\ all' = <<>>
  /\ notifications' = <<>>
  /\ cur' = None
  /\ latest_seen' = None

(* poll_once returned Ok(latest): main moves the cursor and goes to sleep; *)
(* count and failed are what the cycle has printed.                        *)
ReturnOk(latest, count, failed) ==
  /\ since_cursor' = NextCursor(since_cursor, latest)
  /\ result' = Result("Ok", 0)
  /\ sched' = "Sleeping"
  /\ sent_count' = count
  /\ send_failed' = failed
  /\ NoCycle

(* a variant in which an error of the cycle ends the loop *)
ReturnErr_Stops(kind, context) ==
  /\ since_cursor' = since_cursor
  /\ result' = Result(kind, context)
  /\ sched' = "Stopped"
  /\ UNCHANGED <<sent_count, send_failed>>
  /\ NoCycle

(* poll_once returned Err: main prints it and goes to sleep (main.rs:66) *)
ReturnErr(kind, context) ==
  /\ since_cursor' = since_cursor
  /\ result' = Result(kind, context)
  /\ sched' = "Sleeping"
  /\ UNCHANGED <<sent_count, send_failed>>
  /\ NoCycle

(* The for loop goes on over the items in rest until it awaits is_sent or  *)
(* runs out of items and poll_once returns Ok(latest).                     *)
ContinueLoop(rest, latest, count, failed) ==
  \E r \in {SkipRead(rest)} :
    IF r = <<>>
    THEN ReturnOk(latest, count, failed)
    ELSE /\ pc' = "is_sent"
         /\ cur' = Some(Head(r))
         /\ notifications' = Tail(r)
         /\ latest_seen' = latest
         /\ sent_count' = count
         /\ send_failed' = failed
         /\ page' = 0
         /\ all' = <<>>
         /\ UNCHANGED <<since_cursor, sched, result>>

(* History of the watched id.  A delivery is a send_telegram call that    *)
(* returned Ok; the count stops the model at MaxDeliveries.                *)
CountDelivery(ok) ==
  /\ (ok /\ Unwrap(cur).id = watched) => delivered < MaxDeliveries
  /\ delivered' = IF ok /\ Unwrap(cur).id = watched
                  THEN delivered + 1 ELSE delivered
  /\ UNCHANGED <<watched, write_failed, dropped>>

CountWriteFailure(ok) ==
  /\ write_failed' = IF ~ok /\ Unwrap(cur).id = watched
                     THEN write_failed + 1 ELSE write_failed
  /\ UNCHANGED <<watched, delivered, dropped>>

CountDrop ==
  /\ dropped' = IF pc = "mark_sent" /\ Unwrap(cur).id = watched
                THEN dropped + 1 ELSE dropped
  /\ UNCHANGED <<watched, delivered, write_failed>>

(* what a call to the outside can come to: success, or failure too *)
Outcomes == IF faults THEN BOOLEAN ELSE {TRUE}

(* a variant in which a failed page request ends the listing and the      *)
(* pages read so far are processed                                         *)
RequestPage_Partial(ok) ==
  /\ sched = "Polling"
  /\ pc = "fetch"
  /\ \E page_items \in {IF ok THEN PageOf(Listing(feed, backlog, since_cursor), page)
                               ELSE <<>>} :
     \E got \in {all \o page_items} :
       IF Len(page_items) < PageSize \/ page = MaxPage
       THEN \E sorted \in {SortByUpdatedAt(got)} :
              /\ ContinueLoop(sorted, MaxUpdatedAt(got), 0, {})
              /\ answered' = got
       ELSE /\ page' = (page + 1) % 256
            /\ all' = got
            /\ UNCHANGED <<pc, notifications, cur, latest_seen,
                           sent_count, send_failed, since_cursor,
                           sched, result, answered>>
  /\ UNCHANGED <<remote, store, driver, audit, startup>>

(* a variant without the test page == u8::MAX: the counter wraps *)
AnswerPage_NoCap(ok, page_items) ==
  /\ sched = "Polling"
  /\ pc = "fetch"
  /\ IF ~ok
     THEN ReturnErr("FetchError", page) /\ UNCHANGED answered
     ELSE \E got \in {all \o page_items} :
            IF Len(page_items) < PageSize
            THEN \E sorted \in {SortByUpdatedAt(got)} :
                   /\ ContinueLoop(sorted, MaxUpdatedAt(got), 0, {})
                   /\ answered' = got
            ELSE /\ page' = (page + 1) % 256
                 /\ all' = got
                 /\ UNCHANGED <<pc, notifications, cur, latest_seen,
                                sent_count, send_failed, since_cursor,
                                sched, result, answered>>
  /\ UNCHANGED <<remote, store, driver, audit, startup>>

(* fetch_notifications: one page request (main.rs:172-199); ok says        *)
(* whether the request succeeds.                                           *)
AnswerPage(ok, page_items) ==
  /\ sched = "Polling"
  /\ pc = "fetch"
  /\ IF ~ok
     THEN ReturnErr("FetchError", page) /\ UNCHANGED answered
     ELSE \E got \in {all \o page_items} :
            IF Len(page_items) < PageSize \/ page = MaxPage
            THEN \E sorted \in {SortByUpdatedAt(got)} :
                   /\ ContinueLoop(sorted, MaxUpdatedAt(got), 0, {})
                   /\ answered' = got
            ELSE /\ page' = (page + 1) % 256
                 /\ all' = got
                 /\ UNCHANGED <<pc, notifications, cur, latest_seen,
                                sent_count, send_failed, since_cursor,
                                sched, result, answered>>
  /\ UNCHANGED <<remote, store, driver, audit, startup>>

(* the request is answered from the listing of the remote feed *)
RequestPage(ok) ==
  /\ sched = "Polling"
  /\ pc = "fetch"
  /\ \E page_items \in {PageOf(Listing(feed, backlog, since_cursor), page)} :
       AnswerPage(ok, page_items)

FetchPage == \E ok \in Outcomes : RequestPage(ok)

(* a variant in which a failed query counts as "not sent" *)
CheckSent_ErrorAsNotSent(up) ==
  /\ sched = "Polling"
  /\ pc = "is_sent"
  /\ LET r == is_sent(backend, table, Unwrap(cur).id, up)
     IN IF r.ok /\ r.value
        THEN ContinueLoop(notifications, latest_seen, sent_count,
                          send_failed)
        ELSE /\ pc' = "send"
             /\ UNCHANGED <<page, all, notifications, cur, latest_seen,
                            sent_count, send_failed, since_cursor,
                            sched, result>>
  /\ UNCHANGED <<remote, store, driver, audit, startup, answered>>

(* store.is_sent(&notification_id).await? (main.rs:144-146) *)
CheckSent(up) ==
  /\ sched = "Polling"
  /\ pc = "is_sent"
  /\ LET r == is_sent(backend, table, Unwrap(cur).id, up)
     IN IF ~r.ok
        THEN ReturnErr("StoreQueryError", 0)
        ELSE IF r.value
             THEN ContinueLoop(notifications, latest_seen, sent_count,
                               send_failed)
             ELSE /\ pc' = "send"
                  /\ UNCHANGED <<page, all, notifications, cur, latest_seen,
                                 sent_count, send_failed, since_cursor,
                                 sched, result>>
  /\ UNCHANGED <<remote, store, driver, audit, startup, answered>>

IsSent == \E up \in Outcomes : CheckSent(up)

(* mutant: a failed send is propagated with ? *)
Forward_Propagate(ok) ==
  /\ sched = "Polling"
  /\ pc = "send"
  /\ IF ok
     THEN /\ pc' = "mark_sent"
          /\ UNCHANGED <<page, all, notifications, cur, latest_seen,
                         sent_count, send_failed, since_cursor, sched,
                         result>>
     ELSE ReturnErr("SendError", Unwrap(cur).id)
  /\ CountDelivery(ok)
  /\ UNCHANGED <<remote, store, driver, startup, answered>>

(* a variant in which mark_sent is called whatever send_telegram returned *)
Forward_MarkAnyway(ok) ==
  /\ sched = "Polling"
  /\ pc = "send"
  /\ pc' = "mark_sent"
  /\ UNCHANGED <<page, all, notifications, cur, latest_seen,
                 sent_count, send_failed, since_cursor, sched, result>>
  /\ CountDelivery(ok)
  /\ UNCHANGED <<remote, store, driver, startup, answered>>

(* send_telegram(cfg, http, &message).await (main.rs:148-152); ok says     *)
(* whether the request got a 2xx answer.                                   *)
Forward(ok) ==
  /\ sched = "Polling"
  /\ pc = "send"
  /\ IF ok
     THEN /\ pc' = "mark_sent"
          /\ UNCHANGED <<page, all, notifications, cur, latest_seen,
                         sent_count, send_failed, since_cursor, sched,
                         result>>
     ELSE ContinueLoop(notifications, latest_seen, sent_count,
                       send_failed \cup {Unwrap(cur).id})
  /\ CountDelivery(ok)
  /\ UNCHANGED <<remote, store, driver, startup, answered>>

SendTelegram == \E ok \in Outcomes : Forward(ok)

(* a variant in which a failed mark_sent is printed and the loop goes on *)
Record_Swallow(up) ==
  /\ sched = "Polling"
  /\ pc = "mark_sent"
  /\ LET r == mark_sent(backend, table, Unwrap(cur).id, up)
     IN /\ table' = r.table
        /\ ContinueLoop(notifications, latest_seen,
                        IF r.ok THEN sent_count + 1 ELSE sent_count,
                        send_failed)
        /\ CountWriteFailure(r.ok)
  /\ UNCHANGED <<remote, backend, driver, startup, answered>>

(* store.mark_sent(&notification_id).await?; sent_count += 1 (:154-155) *)
Record(up) ==
  /\ sched = "Polling"
  /\ pc = "mark_sent"
  /\ LET r == mark_sent(backend, table, Unwrap(cur).id, up)
     IN /\ table' = r.table
        /\ IF r.ok
           THEN ContinueLoop(notifications, latest_seen, sent_count + 1,
                             send_failed)
           ELSE ReturnErr("StoreWriteError", Unwrap(cur).id)
        /\ CountWriteFailure(r.ok)
  /\ UNCHANGED <<remote, backend, driver, startup, answered>>

MarkSent == \E up \in Outcomes : Record(up)

---------------------------------------------------------------------------
(* main (main.rs:51-83) *)

(* a new poll_once future is polled: fetch_notifications starts at page 1 *)
StartCycle ==
  /\ pc' = "fetch"
  /\ page' = 1
  /\ all' = <<>>
  /\ notifications' = <<>>
  /\ cur' = None
  /\ latest_seen' = None
  /\ sent_count' = 0
  /\ send_failed' = {}
  /\ answered' = <<>>

(* tokio::time::sleep(cfg.poll_interval) completes (main.rs:78) and the    *)
(* loop starts its next iteration.                                         *)
SleepElapsed ==
  /\ sched = "Sleeping"
  /\ sched' = "Polling"
  /\ result' = NoResult
  /\ StartCycle
  /\ UNCHANGED <<remote, store, since_cursor, driver, audit, startup>>

(* a variant in which ctrl_c() is awaited only next to the sleep *)
Shutdown_SleepOnly ==
  /\ sched \in {"Sleeping"}
  /\ sched' = "Stopped"
  /\ result' = NoResult
  /\ sent_count' = 0
  /\ send_failed' = {}
  /\ NoCycle
  /\ answered' = <<>>
  /\ UNCHANGED <<remote, store, since_cursor, driver, audit, startup>>

(* ctrl_c() completes in either select! (main.rs:55-58, 74-77): the loop   *)
(* breaks and a poll_once future that is still pending is dropped.         *)
Shutdown ==
  /\ sched \in {"Polling", "Sleeping"}
  /\ sched' = "Stopped"
  /\ result' = NoResult
  /\ sent_count' = 0
  /\ send_failed' = {}
  /\ NoCycle
  /\ answered' = <<>>
  /\ CountDrop
  /\ UNCHANGED <<remote, store, since_cursor, driver, startup>>

(* The process is started again with the same DATABASE_URL: the table is   *)
(* kept, the cursor is a local of main and starts as None (main.rs:42-51). *)
Restart ==
  /\ sched = "Stopped"
  /\ sched' = "Polling"
  /\ since_cursor' = None
  /\ result' = NoResult
  /\ StartCycle
  /\ UNCHANGED <<remote, store, driver, audit, startup>>

---------------------------------------------------------------------------
(* The remote side.  The program sees it only through its page requests,   *)
(* so a change is placed right before the first page request of the cycle  *)
(* that sees it; the listing does not change between the page requests of  *)
(* one cycle.                                                              *)
BeforeFetch ==
  /\ sched = "Polling"
  /\ pc = "fetch"
  /\ page = 1

(* the remote clock advances *)
Tick ==
  /\ BeforeFetch
  /\ now < MaxTime
  /\ now' = now + 1
  /\ UNCHANGED <<feed, backlog, faults, store, since_cursor, sched, cycle, result,
                 driver, audit, startup>>

(* a notification arrives or is updated: it is unread and stamped now *)
Notify ==
  /\ BeforeFetch
  /\ \E i \in Ids :
       LET f == {n \in feed : n.id # i}
                  \cup {[id |-> i, unread |-> TRUE, updated_at |-> now]}
       IN /\ f # feed
          /\ IsFeed(f)
          /\ feed' = f
  /\ UNCHANGED <<backlog, now, faults, store, since_cursor, sched, cycle, result,
                 driver, audit, startup>>

(* the user reads a notification: it is listed as read from then on, or,   *)
(* as the request asks with all(false) (main.rs:177), not listed any more  *)
MarkRead ==
  /\ BeforeFetch
  /\ \E n \in feed :
       \/ /\ n.unread
          /\ feed' = (feed \ {n}) \cup {[n EXCEPT !.unread = FALSE]}
       \/ feed' = feed \ {n}
  /\ UNCHANGED <<backlog, now, faults, store, since_cursor, sched, cycle, result,
                 driver, audit, startup>>

(* the page of old read notifications enters or leaves the listing; its    *)
(* items are stamped 1, so it enters while the clock shows 1               *)
BacklogChange ==
  /\ BeforeFetch
  /\ ~backlog => now = 1
  /\ backlog' = ~backlog
  /\ UNCHANGED <<feed, now, faults, store, since_cursor, sched, cycle, result,
                 driver, audit, startup>>

---------------------------------------------------------------------------
(* The store interface called directly (trait NotificationStore,           *)
(* db.rs:8-13), on either backend.                                         *)
NoAnswer == [op |-> "none", id |-> 0, up |-> TRUE, ok |-> TRUE, value |-> FALSE]

CallMarkSent ==
  /\ \E id \in Ids, up \in BOOLEAN :
       LET r == mark_sent(backend, table, id, up)
       IN /\ r.ok => Len(calls) < MaxCalls
          /\ table' = r.table
          /\ calls' = IF r.ok THEN Append(calls, id) ELSE calls
          /\ answer' = [op |-> "mark_sent", id |-> id, up |-> up,
                        ok |-> r.ok, value |-> FALSE]
  /\ UNCHANGED <<remote, backend, since_cursor, sched, cycle, result, audit,
                 startup>>

CallIsSent ==
  /\ \E id \in Ids, up \in BOOLEAN :
       LET r == is_sent(backend, table, id, up)
       IN answer' = [op |-> "is_sent", id |-> id, up |-> up,
                     ok |-> r.ok, value |-> r.value]
  /\ UNCHANGED <<remote, store, since_cursor, sched, cycle, result, calls,
                 audit, startup>>

---------------------------------------------------------------------------
(* The daemon: the store is connected and initialised, the cursor is None  *)
(* and the first poll_once is about to request page 1 (main.rs:42-59).     *)
InitWith(b) ==
  /\ feed = {}
  /\ backlog = FALSE
  /\ now = 1
  /\ faults = TRUE
  /\ table = {}
  /\ backend = b
  /\ since_cursor = None
  /\ sched = "Polling"
  /\ pc = "fetch"
  /\ page = 1
  /\ all = <<>>
  /\ notifications = <<>>
  /\ cur = None
  /\ latest_seen = None
  /\ sent_count = 0
  /\ send_failed = {}
  /\ result = NoResult
  /\ calls = <<>>
  /\ answer = NoAnswer
  /\ answered = <<>>
  /\ delivered = 0
  /\ write_failed = 0
  /\ dropped = 0
  /\ database_url = UrlOf(b)
  /\ io = connect_store(UrlOf(b), TRUE, TRUE).io
  /\ started = connect_store(UrlOf(b), TRUE, TRUE).result

(* DATABASE_URL defaults to sqlite://./data/notify.db (main.rs:93) *)
Init == InitWith("sqlite") /\ watched = 0

Next ==
  \/ FetchPage
  \/ IsSent
  \/ SendTelegram
  \/ MarkSent
  \/ SleepElapsed
  \/ Shutdown
  \/ Restart
  \/ Tick
  \/ Notify
  \/ MarkRead
  \/ BacklogChange

Spec == Init /\ [][Next]_vars

(* The daemon left running: no signal arrives, and from some moment on    *)
(* the calls to GitHub, Telegram and the database succeed.                 *)
Recover ==
  /\ faults
  /\ faults' = FALSE
  /\ UNCHANGED <<feed, backlog, now, store, since_cursor, sched, cycle,
                 result, driver, audit, startup>>

NextRunning ==
  \/ FetchPage
  \/ IsSent
  \/ SendTelegram
  \/ MarkSent
  \/ SleepElapsed
  \/ Tick
  \/ Notify
  \/ MarkRead
  \/ BacklogChange
  \/ Recover

SpecRunning ==
  /\ Init
  /\ [][NextRunning]_vars
  /\ WF_vars(Recover)
  /\ WF_vars(FetchPage)
  /\ WF_vars(IsSent)
  /\ WF_vars(SendTelegram)
  /\ WF_vars(MarkSent)
  /\ WF_vars(SleepElapsed)

(* The daemon with a sleep that ends: tokio::time::sleep(poll_interval)    *)
(* completes after a finite time (main.rs:78).                             *)
SpecFair == Init /\ [][Next]_vars /\ WF_vars(SleepElapsed)

(* A remote side that answers a page request with any short page: items   *)
(* in any order, the same id more than once.                               *)
BatchesOf(items) == UNION {[1..k -> items] : k \in 0..MaxBatch}

(* One cycle against any batch of notifications. *)
AnyBatch == BatchesOf(Notification)

FetchAny ==
  /\ pc = "fetch"
  /\ \E ok \in Outcomes, b \in AnyBatch : AnswerPage(ok, b)

NextCycle ==
  \/ FetchAny
  \/ IsSent
  \/ SendTelegram
  \/ MarkSent

SpecCycle == Init /\ [][NextCycle]_vars

(* Any number of cycles and restarts against any batches, with the         *)
(* deliveries of one id counted.  The remote side does not look at the     *)
(* cursor here, so the instants of the items play no part and all are 1.   *)
Undated == {n \in Notification : n.updated_at = 1}

UndatedBatch == BatchesOf(Undated)

FetchUndated ==
  /\ pc = "fetch"
  /\ \E ok \in Outcomes, b \in UndatedBatch : AnswerPage(ok, b)

InitBatches == InitWith("sqlite") /\ watched \in Ids

NextBatches ==
  \/ FetchUndated
  \/ IsSent
  \/ SendTelegram
  \/ MarkSent
  \/ SleepElapsed
  \/ Shutdown
  \/ Restart

SpecBatches == InitBatches /\ [][NextBatches]_vars

(* The daemon against the remote feed, with the deliveries of one id       *)
(* counted.                                                                *)
SpecWatched == InitBatches /\ [][Next]_vars

(* One cycle against a remote side that can answer every page request    *)
(* with a full page, without end; it can also answer with a page one item  *)
(* short, with an empty page or with a single unread notification.         *)
FloodPages ==
  {Backlog, SubSeq(Backlog, 1, PageSize - 1), <<>>,
   <<[id |-> 1, unread |-> TRUE, updated_at |-> 2]>>}

FetchFlood ==
  /\ pc = "fetch"
  /\ \E ok \in Outcomes, b \in FloodPages : AnswerPage(ok, b)

NextPages ==
  \/ FetchFlood
  \/ IsSent
  \/ SendTelegram
  \/ MarkSent

SpecPages == Init /\ [][NextPages]_vars

(* Startup: main calls connect_store with the configured URL             *)
(* (main.rs:42).                                                           *)
Schemes ==
  {Chars(x) : x \in {"sqlite://", "sqlite::memory:", "sqlite:", "Sqlite://",
                     "postgres://", "postgresql://", "postgres:", "ftp://",
                     "file://", "mysql://", ""}}

Rests ==
  {Chars(x) : x \in {"", "host", "h/db", "./data/notify.db", "/n.db",
                     "n.db", ":memory:", "sqlite://x", "/"}}

Urls == {scheme \o rest : scheme \in Schemes, rest \in Rests}

ConnectStore ==
  /\ started = "none"
  /\ \E dir_ok, conn_ok \in BOOLEAN :
       LET r == connect_store(database_url, dir_ok, conn_ok)
       IN /\ started' = r.result
          /\ backend' = r.backend
          /\ io' = r.io
  /\ UNCHANGED <<remote, table, since_cursor, sched, cycle, result, driver,
                 audit, database_url>>

InitConnect ==
  /\ database_url \in Urls
  /\ io = <<>>
  /\ started = "none"
  /\ backend = "none"
  /\ sched = "Idle"
  /\ pc = "idle"
  /\ page = 0
  /\ feed = {}
  /\ backlog = FALSE
  /\ now = 1
  /\ faults = TRUE
  /\ table = {}
  /\ since_cursor = None
  /\ all = <<>>
  /\ notifications = <<>>
  /\ cur = None
  /\ latest_seen = None
  /\ sent_count = 0
  /\ send_failed = {}
  /\ answered = <<>>
  /\ result = NoResult
  /\ calls = <<>>
  /\ answer = NoAnswer
  /\ watched = 0
  /\ delivered = 0
  /\ write_failed = 0
  /\ dropped = 0

SpecConnect == InitConnect /\ [][ConnectStore]_vars

(* The store interface on its own, on either backend *)
InitStore == \E b \in Backends : InitWith(b) /\ watched = 0

NextStore == CallMarkSent \/ CallIsSent

SpecStore == InitStore /\ [][NextStore]_vars

---------------------------------------------------------------------------
(* Properties *)

Examining == pc \in {"is_sent", "send", "mark_sent"}
Current == Unwrap(cur)

(* the first unread item of a sequence, as an Option *)
FirstUnread(s) ==
  LET u == SelectSeq(s, LAMBDA n : n.unread)
  IN IF u = <<>> THEN None ELSE Some(u[1])

\* C1: poll_once never attempts to forward a notification whose id is in
\* the dedup table: whenever a forward is awaited or has just succeeded, the
\* id of the current notification is not recorded, across cycles and
\* restarts.
C1_NeverForwardsRecorded ==
  pc \in {"send", "mark_sent"} => Current.id \notin table

(* a later cycle has fetched a recorded, still unread id and examines it *)
C1_Witness ==
  /\ pc = "is_sent"
  /\ Current.unread
  /\ Current.id \in table

\* C3: a failed forward of A leaves the table unchanged and A unrecorded,
\* and the cycle goes on with the next unread item in dispatch order or, if
\* there is none, ends with Ok; and once a forward has failed in the cycle,
\* a later item whose forward succeeded is recorded unless the write fails
\* or the cycle is dropped.
C3_FailedForwardDoesNotAbort ==
  /\ [][(pc = "send" /\ pc' # "mark_sent" /\ sched' # "Stopped") =>
          /\ table' = table
          /\ Current.id \notin table'
          /\ Current.id \in send_failed'
          /\ IF FirstUnread(notifications) # None
             THEN /\ sched' = "Polling"
                  /\ pc' = "is_sent"
                  /\ cur' = FirstUnread(notifications)
             ELSE /\ sched' = "Sleeping"
                  /\ result'.kind = "Ok"]_vars
  /\ [][(pc = "mark_sent" /\ send_failed # {} /\ sched' # "Stopped"
           /\ result'.kind # "StoreWriteError") =>
          /\ Current.id \in table'
          /\ sent_count' = sent_count + 1
          /\ sched' = "Sleeping" => result'.kind = "Ok"]_vars

(* the cycle has ended with Ok after the forward of the older item failed  *)
(* and the younger item was forwarded and recorded                         *)
C3_Witness ==
  /\ sched = "Sleeping"
  /\ result.kind = "Ok"
  /\ sent_count = 1
  /\ \E a, b \in feed :
       /\ a.updated_at < b.updated_at
       /\ a.id \in send_failed
       /\ a.id \notin table
       /\ b.id \in table
       /\ b.id \notin send_failed

\* C4: a notification whose unread flag is false is never examined,
\* forwarded or recorded by poll_once: the notification under examination
\* is always unread, and the table only ever gains the id of the unread
\* notification whose forward has just succeeded.
C4_ReadNeverForwarded ==
  /\ [](Examining => Current.unread)
  /\ [][table' # table =>
          /\ pc = "mark_sent"
          /\ Current.unread
          /\ table' = table \cup {Current.id}]_vars

(* the loop has passed a fetched read notification whose id is not in the  *)
(* table and examines a later one                                          *)
C4_Witness ==
  /\ Examining
  /\ \E n \in feed :
       /\ ~n.unread
       /\ Since(since_cursor, n)
       /\ n.updated_at < Current.updated_at
       /\ n.id \notin table

\* C5: on either backend, is_sent(id) answers true for every id that a
\* successful mark_sent(id) call was made for, and a mark_sent(id) call that
\* reaches the database returns Ok and leaves the table as it was plus id,
\* so a repeated mark_sent(id) returns no error and changes nothing.
C5_MarkSentIdempotent ==
  /\ [](\A k \in DOMAIN calls :
          is_sent(backend, table, calls[k], TRUE) = [ok |-> TRUE, value |-> TRUE])
  /\ []((answer.op = "is_sent" /\ answer.up
           /\ \E k \in DOMAIN calls : calls[k] = answer.id) =>
          answer.ok /\ answer.value)
  /\ [][(answer'.op = "mark_sent" /\ answer'.up) =>
          /\ answer'.ok
          /\ table' = table \cup {answer'.id}
          /\ answer'.id \in table => table' = table]_vars

(* mark_sent has just returned Ok for an id it had already recorded *)
C5_Witness ==
  /\ Len(calls) >= 2
  /\ calls[Len(calls)] = calls[Len(calls) - 1]
  /\ answer.op = "mark_sent"
  /\ answer.id = calls[Len(calls)]
  /\ answer.ok

(* the instants of the notifications the cycle under way has fetched: the  *)
(* listing does not change during a cycle                                  *)
FetchedTimes ==
  {n.updated_at : n \in {m \in feed : Since(since_cursor, m)}}
    \cup {Backlog[k].updated_at :
            k \in {j \in DOMAIN Backlog : backlog /\ Since(since_cursor, Backlog[j])}}

Latest(S) == CHOOSE t \in S : \A u \in S : t >= u

CycleEnds == sched = "Polling" /\ sched' = "Sleeping"

\* C6: a cycle that ends with Ok and has fetched something leaves the
\* cursor at the largest fetched updated_at minus one second; a cycle that
\* ends with an error or has fetched nothing leaves the cursor as it was; no
\* other step writes it, except that a restarted process starts with None.
C6_CursorWrittenOnSuccessOnly ==
  [][IF CycleEnds /\ result'.kind = "Ok" /\ FetchedTimes # {}
     THEN since_cursor' = Some(Latest(FetchedTimes) - 1)
     ELSE IF sched = "Stopped" /\ sched' = "Polling"
          THEN since_cursor' = None
          ELSE since_cursor' = since_cursor]_vars

(* a cycle has failed after an earlier one had set the cursor *)
C6_Witness ==
  /\ sched = "Sleeping"
  /\ result.kind \in {"FetchError", "StoreQueryError", "StoreWriteError"}
  /\ since_cursor # None

\* C7: the cursor after a successful cycle is never earlier than the cursor
\* before it (the listing only holds notifications updated at or after the
\* requested instant, stamped by a clock that never runs backwards).
C7_CursorMonotone ==
  [][(CycleEnds /\ result'.kind = "Ok" /\ since_cursor # None) =>
       /\ since_cursor' # None
       /\ Unwrap(since_cursor') >= Unwrap(since_cursor)]_vars

\* C2: at-least-once delivery: a fetched unread notification that is not in
\* the table, whose forward is being attempted, is in the end forwarded
\* successfully unless the remote side changes or drops it, when the daemon
\* keeps polling and calls that are retried succeed in the end.
C2_AtLeastOnce ==
  \A n \in Notification :
    (pc = "send" /\ cur = Some(n))
      ~> ((pc = "mark_sent" /\ cur = Some(n)) \/ n \notin feed)

\* C8: an error of the cycle never stops the loop: the step in which
\* poll_once ends, with Ok or with any error, takes the scheduler from
\* Polling to Sleeping, and a sleeping scheduler starts the first page
\* request of another cycle unless a shutdown signal stops it.
C8_ErrorsNeverStopLoop ==
  /\ [][(result = NoResult /\ result' # NoResult) =>
          /\ sched = "Polling"
          /\ sched' = "Sleeping"
          /\ result'.kind \in {"Ok", "FetchError", "StoreQueryError",
                               "StoreWriteError"}]_vars
  /\ [][(sched = "Polling" /\ sched' # "Polling") =>
          \/ sched' = "Sleeping" /\ result' # NoResult
          \/ Shutdown]_vars
  /\ (sched = "Sleeping")
       ~> \/ sched = "Polling" /\ pc = "fetch" /\ page = 1
          \/ sched = "Stopped"

(* the loop sleeps after a cycle that ended with a store write error *)
C8_Witness ==
  /\ sched = "Sleeping"
  /\ result.kind = "StoreWriteError"
  /\ since_cursor # None

\* C9: a shutdown signal can be taken both while a cycle is outstanding and
\* while the loop sleeps; taking it leads to Stopped in that very step, with
\* the cycle dropped and table and cursor untouched; in Stopped no page
\* request, store call, forward or wake-up of this run is possible.
C9_ShutdownAtBothCheckpoints ==
  /\ [](sched \in {"Polling", "Sleeping"} => ENABLED Shutdown)
  /\ [][Shutdown =>
          /\ sched' = "Stopped"
          /\ pc' = "idle"
          /\ cur' = None
          /\ table' = table
          /\ since_cursor' = since_cursor]_vars
  /\ [](sched = "Stopped" =>
          /\ ~ENABLED FetchPage
          /\ ~ENABLED IsSent
          /\ ~ENABLED SendTelegram
          /\ ~ENABLED MarkSent
          /\ ~ENABLED SleepElapsed)
  /\ [][sched = "Stopped" => (Restart /\ table' = table)]_vars

(* the loop was stopped while a forward was outstanding or had been        *)
(* recorded in an earlier cycle, with an unread notification left over     *)
C9_Witness ==
  /\ sched = "Stopped"
  /\ table # {}
  /\ \E n \in feed : n.unread /\ n.id \notin table

\* C10: a failed page request abandons the cycle: poll_once ends with a
\* fetch error that names the page, the pages read so far are dropped
\* without any item of them being examined or forwarded, and the table and
\* the cursor stay as they were.
C10_PageFailureAbandonsCycle ==
  /\ [](pc = "fetch" => cur = None /\ sent_count = 0 /\ send_failed = {})
  /\ [][RequestPage(FALSE) =>
          /\ result' = Result("FetchError", page)
          /\ sched' = "Sleeping"
          /\ pc' = "idle"
          /\ all' = <<>>
          /\ notifications' = <<>>
          /\ cur' = None
          /\ sent_count' = 0
          /\ table' = table
          /\ since_cursor' = since_cursor]_vars

(* the request for the second page has failed with an unread notification  *)
(* that is not in the table on the first page                              *)
C10_Witness ==
  /\ result = Result("FetchError", 2)
  /\ sched = "Sleeping"
  /\ backlog
  /\ \E n \in feed : n.unread /\ n.id \notin table /\ Since(since_cursor, n)

\* C11: a notification whose mark_sent failed after its forward is
\* delivered at most one more time over the whole execution: unless a
\* cycle was dropped between its forward and its mark_sent, the number of
\* its deliveries never exceeds two.
C11_AtMostOneDuplicate ==
  (write_failed > 0 /\ dropped = 0) => delivered <= 2

(* the schemes the daemon is documented to accept *)
Recognized(url) ==
  \/ starts_with(url, Chars("sqlite://"))
  \/ url = Chars("sqlite::memory:")
  \/ starts_with(url, Chars("postgres://"))
  \/ starts_with(url, Chars("postgresql://"))

\* C12: connect_store answers a URL of no recognized scheme with the
\* unsupported-scheme error, having attempted no I/O (no directory made, no
\* connection opened) and built no store.
C12_UnsupportedSchemeRejected ==
  (started # "none" /\ ~Recognized(database_url)) =>
    /\ started = "UnsupportedScheme"
    /\ io = <<>>
    /\ backend = "none"

(* ftp://host has been rejected *)
C12_Witness ==
  /\ database_url = Chars("ftp://") \o Chars("host")
  /\ started = "UnsupportedScheme"

\* C13: a URL of a recognized scheme is never answered with the
\* unsupported-scheme error: sqlite://<path> and sqlite::memory: reach the
\* SQLite engine, the latter without a directory being made, and
\* postgres:// and postgresql:// reach the Postgres engine.
C13_RecognizedSchemeDispatched ==
  (started # "none" /\ Recognized(database_url)) =>
    LET engine == IF \/ starts_with(database_url, Chars("postgres://"))
                     \/ starts_with(database_url, Chars("postgresql://"))
                  THEN "postgres" ELSE "sqlite"
    IN /\ started # "UnsupportedScheme"
       /\ started = "Ok" => backend = engine
       /\ started \in {"Ok", "ConnectError"} =>
            \E k \in DOMAIN io : io[k].op \in {"connect " \o engine}
       /\ database_url = Chars("sqlite::memory:") =>
            \A k \in DOMAIN io : io[k].op # "create_dir_all"

\* C14: a record is written only for an id whose forward has just
\* succeeded and is never changed or removed: every recorded id has been
\* delivered, the steps that skip an item or attempt its forward write
\* nothing, the only write adds the id of the item whose forward succeeded,
\* and the table only grows, over all cycles and restarts.
C14_RecordOnlyAfterForward ==
  /\ [](watched \in table => delivered >= 1)
  /\ [][table \subseteq table']_vars
  /\ [][(pc \in {"fetch", "is_sent", "send", "idle"}) => table' = table]_vars
  /\ [][table' # table =>
          /\ pc = "mark_sent"
          /\ table' = table \cup {Current.id}
          /\ Current.unread
          /\ Current.id = watched => delivered >= 1]_vars

(* the watched id is recorded after its one delivery, while the forward of *)
(* another id has failed and left no record                                *)
C14_Witness ==
  /\ watched \in table
  /\ delivered = 1
  /\ \E id \in send_failed : id \notin table

\* C17: a failed mark_sent ends poll_once at once with a store write error:
\* no later item of the batch is examined, the table keeps the records
\* written earlier in the cycle and gains none, the scheduler goes to sleep
\* and the cursor stays as it was.
C17_WriteFailureEndsCycle ==
  [][Record(FALSE) =>
       /\ result' = Result("StoreWriteError", Current.id)
       /\ sched' = "Sleeping"
       /\ pc' = "idle"
       /\ cur' = None
       /\ notifications' = <<>>
       /\ table' = table
       /\ sent_count' = sent_count
       /\ since_cursor' = since_cursor]_vars

(* the write for the first item of the batch has failed, with a later     *)
(* unread item of the batch left alone                                     *)
C17_Witness ==
  /\ sched = "Sleeping"
  /\ result.kind = "StoreWriteError"
  /\ \E a, b \in feed :
       /\ a.id = result.context
       /\ a.updated_at < b.updated_at
       /\ b.unread
       /\ Since(since_cursor, a)
       /\ b.id \notin table
       /\ b.id \notin send_failed

\* C18: a failed is_sent ends poll_once at once with a store query error:
\* the item and the later ones are neither forwarded nor recorded, and the
\* cursor stays as it was; an answered query is never an error, and the
\* item is forwarded next exactly if the answer is "no row"; an error is
\* never followed by a forward.
C18_QueryFailureEndsCycle ==
  /\ [][CheckSent(FALSE) =>
          /\ result' = Result("StoreQueryError", 0)
          /\ sched' = "Sleeping"
          /\ pc' = "idle"
          /\ cur' = None
          /\ notifications' = <<>>
          /\ table' = table
          /\ sent_count' = sent_count
          /\ since_cursor' = since_cursor]_vars
  /\ [][CheckSent(TRUE) =>
          /\ result'.kind # "StoreQueryError"
          /\ (pc' = "send") = (Current.id \notin table)
          /\ pc' = "send" => cur' = cur]_vars

(* the query for the second item of the batch has failed after the first  *)
(* was forwarded and recorded                                              *)
C18_Witness ==
  /\ sched = "Sleeping"
  /\ result.kind = "StoreQueryError"
  /\ sent_count = 1
  /\ \E n \in feed : n.unread /\ n.id \notin table /\ Since(since_cursor, n)

(* the instants of the items the fetch of this cycle returned *)
AnsweredTimes == {answered[i].updated_at : i \in DOMAIN answered}

\* C15: the latest_seen of a cycle is the largest updated_at over all the
\* items the fetch returned, read or unread, recorded or not, forwarded or
\* failed, in whatever order they came: it holds that value while the items
\* are examined, and a cycle that returns Ok hands it to main, which moves
\* the cursor to one second before it; nothing is handed over exactly when
\* the fetch returned no item.
C15_LatestSeenIsBatchMaximum ==
  /\ Examining =>
       /\ answered # <<>>
       /\ latest_seen = Some(Latest(AnsweredTimes))
  /\ (sched = "Sleeping" /\ result.kind = "Ok") =>
       since_cursor = IF answered = <<>> THEN None
                      ELSE Some(Latest(AnsweredTimes) - 1)

(* a cycle has ended Ok on a batch that came newest first, whose newest   *)
(* item is read and whose older item was forwarded                          *)
C15_Witness ==
  /\ sched = "Sleeping"
  /\ result.kind = "Ok"
  /\ Len(answered) = 2
  /\ answered[1].updated_at > answered[2].updated_at
  /\ ~answered[1].unread
  /\ answered[2].unread
  /\ sent_count = 1
  /\ since_cursor = Some(answered[1].updated_at - 1)

(* f lists the positions of the fetched sequence a in the order of a      *)
(* stable sort by updated_at: every position once, instants ascending,     *)
(* and positions of one instant ascending                                  *)
StableOrder(a, f) ==
  /\ \A i \in DOMAIN a : \E j \in DOMAIN a : f[j] = i
  /\ \A i, j \in DOMAIN a :
       i < j => \/ a[f[i]].updated_at < a[f[j]].updated_at
                \/ /\ a[f[i]].updated_at = a[f[j]].updated_at
                   /\ f[i] < f[j]

\* C16: within a cycle the items are taken up in the order of a stable sort
\* of the fetched batch by updated_at: the item under examination followed
\* by the items still waiting is always the tail of that order, and a step
\* to the next item takes the first waiting unread item and passes only
\* read ones; so every item taken up before the cycle stops is no later
\* than every item not yet reached.
C16_DispatchInStableOrder ==
  /\ [](Examining =>
         \E f \in [DOMAIN answered -> DOMAIN answered] :
           /\ StableOrder(answered, f)
           /\ \E k \in DOMAIN answered :
                /\ <<Current>> \o notifications
                     = [i \in 1..(Len(answered) - k + 1) |-> answered[f[k + i - 1]]]
                /\ \A i \in 1..(k - 1) :
                     answered[f[i]].updated_at <= Current.updated_at)
  /\ [][(Examining /\ Examining' /\ notifications' # notifications) =>
          \E k \in DOMAIN notifications :
            /\ cur' = Some(notifications[k])
            /\ notifications' = SubSeq(notifications, k + 1, Len(notifications))
            /\ \A j \in 1..(k - 1) : ~notifications[j].unread]_vars

(* two unread notifications of one instant were fetched; the one fetched  *)
(* first has been forwarded and the other is about to be                   *)
C16_Witness ==
  /\ pc = "send"
  /\ Len(answered) = 2
  /\ answered[1].id # answered[2].id
  /\ answered[1].updated_at = answered[2].updated_at
  /\ answered[1].unread
  /\ cur = Some(answered[2])
  /\ sent_count = 1
  /\ answered[1].id \in table

\* C19: fetch_notifications asks for the pages 1, 2, 3, .. in turn and
\* keeps every item it was given, in order: while it is fetching, the page
\* number is between 1 and 255 and all holds the page - 1 full pages
\* received; it asks for the next page, numbered one higher, exactly when
\* the page it got has 50 items and was not page 255, and otherwise returns
\* what it has; so it makes at most 255 requests and the counter never
\* leaves the range of eight bits.
C19_PagedFetchBounded ==
  /\ [](pc = "fetch" =>
         /\ page \in 1..MaxPage
         /\ Len(all) = (page - 1) * PageSize)
  /\ [][(pc = "fetch" /\ pc' = "fetch") =>
          /\ page < MaxPage
          /\ page' = page + 1
          /\ Len(all') = Len(all) + PageSize
          /\ SubSeq(all', 1, Len(all)) = all]_vars
  /\ [][(pc = "fetch" /\ pc' # "fetch" /\ result'.kind # "FetchError") =>
          /\ Len(answered') - Len(all) < PageSize \/ page = MaxPage
          /\ Len(answered') - Len(all) <= PageSize
          /\ SubSeq(answered', 1, Len(all)) = all]_vars

(* every one of the 255 pages came back full, and the fetch has returned  *)
(* all their items                                                         *)
C19_Witness ==
  /\ pc # "fetch"
  /\ result.kind # "FetchError"
  /\ Len(answered) = MaxPage * PageSize

\* C20: over all cycles and restarts an id is delivered once, plus once
\* for every mark_sent of it that failed and every cycle that was cancelled
\* between its delivery and its mark_sent; so with no such failure and no
\* such cancellation it is delivered at most once, also when a batch lists
\* it twice.
C20_AtMostOnceUnlessWriteLost ==
  /\ delivered <= 1 + write_failed + dropped
  /\ (write_failed = 0 /\ dropped = 0) => delivered <= 1

(* a batch listing the watched id twice, both unread, has been worked     *)
(* through without a failure: one delivery                                 *)
C20_Witness ==
  /\ sched = "Sleeping"
  /\ result.kind = "Ok"
  /\ Len(answered) = 2
  /\ answered[1].id = watched
  /\ answered[2].id = watched
  /\ answered[1].unread
  /\ answered[2].unread
  /\ sent_count = 1
  /\ delivered = 1
  /\ write_failed = 0
  /\ dropped = 0

====
